---- MODULE Spec2Model ----
(***************************************************************************)
(* Model of the Dashboard component (src/componentscomponents/Dashboard.tsx) *)
(* : the chat assistant controller (handleSendMessage), the motivation     *)
(* feed (fetchMotivation) and the track matcher with the completion rates  *)
(* (activeTracks, globalCompletionRate, trackRate).                        *)
(*                                                                         *)
(* Strings are sequences of one-character strings, so that trim() and the  *)
(* JavaScript truthiness test are computed and not assumed.  A string      *)
(* literal of the source is written as a one-element sequence holding the  *)
(* literal.                                                                *)
(***************************************************************************)
EXTENDS Integers, Sequences, FiniteSets, TLC

\* ---------------------------------------------------------------- bounds
MaxLen == 2        \* longest draft typed into the chat input
MaxSends == 2      \* accepted chat sends in one run
MaxFetches == 3    \* fetchMotivation invocations in one run
MaxTracks == 2     \* tracks in the curriculum
MaxTopics == 3     \* topics in one track
MaxCompleted == 2  \* entries of progress.completedTopicIds

\* ---------------------------------------------------------------- strings
WhiteSpace == {" "}
Char == WhiteSpace \cup {"a"}
Texts == UNION {[1..n -> Char] : n \in 0..MaxLen}
ReplyTexts == UNION {[1..n -> Char] : n \in 0..1}

RECURSIVE trimStart(_)
trimStart(s) ==
  IF s = <<>> THEN s
  ELSE IF Head(s) \in WhiteSpace THEN trimStart(Tail(s)) ELSE s

RECURSIVE trimEnd(_)
trimEnd(s) ==
  IF s = <<>> THEN s
  ELSE IF s[Len(s)] \in WhiteSpace THEN trimEnd(SubSeq(s, 1, Len(s) - 1)) ELSE s

\* String.prototype.trim
trim(s) == trimEnd(trimStart(s))

\* a string is falsy exactly when it is empty
falsy(s) == s = <<>>

\* ---------------------------------------------------------------- literals
InitialMotivation == <<"Loading your daily focus...">>
EmptyQuoteFallback == <<"Consistency is the key to mastering your career path.">>
MotivationErrorFallback == <<"Success is the sum of small efforts, repeated day-in and day-out.">>
ApologyText == <<"I'm sorry, I couldn't process that request right now.">>
ConnectionErrorText == <<"Error connecting to AI service. Please check your connection.">>

\* the outcome recorded for a step that settles nothing
NoOutcome == [kind |-> "none", text |-> <<>>]

\* ---------------------------------------------------------------- progress data
\* String.prototype.toLowerCase on the letters A-Z
UpperToLower ==
  [c \in {"A","B","C","D","E","F","G","H","I","J","K","L","M",
          "N","O","P","Q","R","S","T","U","V","W","X","Y","Z"} |->
     CASE c = "A" -> "a" [] c = "B" -> "b" [] c = "C" -> "c" [] c = "D" -> "d"
       [] c = "E" -> "e" [] c = "F" -> "f" [] c = "G" -> "g" [] c = "H" -> "h"
       [] c = "I" -> "i" [] c = "J" -> "j" [] c = "K" -> "k" [] c = "L" -> "l"
       [] c = "M" -> "m" [] c = "N" -> "n" [] c = "O" -> "o" [] c = "P" -> "p"
       [] c = "Q" -> "q" [] c = "R" -> "r" [] c = "S" -> "s" [] c = "T" -> "t"
       [] c = "U" -> "u" [] c = "V" -> "v" [] c = "W" -> "w" [] c = "X" -> "x"
       [] c = "Y" -> "y" [] c = "Z" -> "z"]

toLowerCase(s) ==
  [i \in 1..Len(s) |-> IF s[i] \in DOMAIN UpperToLower THEN UpperToLower[s[i]] ELSE s[i]]

\* the default level of a config: 'Beginner'
Beginner == <<"B","e","g","i","n","n","e","r">>

\* the domain whose tracks are matched through config.libraries: 'ML'
ML == "ML"
Domains == {"Web", ML}

\* values of the level and languageOrTech of a track and of the fields of a
\* config; an absent field of a config is the empty string or the empty list
TrackLevels == {Beginner, <<"P","r","o">>}
TrackTechs == {<<>>, <<"J","S">>, <<"t","f">>}
ConfigLevels == {<<>>, <<"b","e","g","i","n","n","e","r">>, <<"P","r","o">>}
ConfigLanguages == {<<>>, <<"j","s">>, <<"T","F">>}
ConfigLibraries == {<<>>, <<<<"T","F">>>>, <<<<"T","F">>, <<"t","f">>>>}

\* prefs.configs[domain] of a domain without a config
NoConfig == [present |-> FALSE, level |-> <<>>, language |-> <<>>, libraries |-> <<>>]

WebConfigs ==
  {NoConfig} \cup
  {[present |-> TRUE, level |-> lv, language |-> la, libraries |-> <<>>] :
     lv \in ConfigLevels, la \in ConfigLanguages}

MLConfigs ==
  {NoConfig} \cup
  {[present |-> TRUE, level |-> lv, language |-> la, libraries |-> li] :
     lv \in ConfigLevels, la \in {<<>>, <<"t","f">>}, li \in ConfigLibraries}

\* progress.preferences undefined
NoPreferences == [present |-> FALSE, configs |-> [d \in Domains |-> NoConfig]]

\* catalogues of up to MaxTracks tracks with one topic each; track i has id i
\* and the topic i
MatchCatalogues ==
  UNION {
    {[i \in 1..n |-> [id |-> i, domain |-> dm[i], level |-> lv[i],
                      languageOrTech |-> te[i], topics |-> <<[id |-> i]>>]] :
       dm \in [1..n -> Domains], lv \in [1..n -> TrackLevels], te \in [1..n -> TrackTechs]} :
    n \in 0..MaxTracks}

MatchProgresses ==
  {[activeDomains |-> ad, preferences |-> pr, completedTopicIds |-> <<1>>] :
     ad \in SUBSET Domains,
     pr \in {NoPreferences} \cup
            {[present |-> TRUE, configs |-> [d \in Domains |-> IF d = ML THEN mc ELSE wc]] :
               wc \in WebConfigs, mc \in MLConfigs}}

\* the topic ids of track i: 10 * i + 1, 10 * i + 2, ...
topicsOf(i, n) == [k \in 1..n |-> [id |-> 10 * i + k]]

\* catalogues of up to MaxTracks Web tracks of the level Beginner with up to
\* MaxTopics topics each
AggregateCatalogues ==
  UNION {
    {[i \in 1..n |-> [id |-> i, domain |-> "Web", level |-> Beginner,
                      languageOrTech |-> te[i], topics |-> topicsOf(i, nt[i])]] :
       te \in [1..n -> {<<"J","S">>, <<"P","y">>}], nt \in [1..n -> 0..MaxTopics]} :
    n \in 0..MaxTracks}

\* completedTopicIds: up to MaxCompleted ids of catalogue topics or the id 0 of
\* no topic, repetitions included; the code uses only length and includes, so
\* one order of each list is enough
CompletedLists ==
  LET ids == {0} \cup {10 * i + k : i \in 1..MaxTracks, k \in 1..MaxTopics} IN
    {q \in UNION {[1..n -> ids] : n \in 0..MaxCompleted} :
       \A i \in 1..(Len(q) - 1) : q[i] <= q[i + 1]}

\* the learner of the Web domain with the language js
AggregateProgresses ==
  {[activeDomains |-> {"Web"},
    preferences |-> [present |-> TRUE,
                     configs |-> [d \in Domains |->
                        IF d = "Web"
                        THEN [present |-> TRUE, level |-> <<>>,
                              language |-> <<"j","s">>, libraries |-> <<>>]
                        ELSE NoConfig]],
    completedTopicIds |-> c] : c \in CompletedLists}

\* one Web / Beginner / JS track with two topics, the first one completed
SampleCatalogue ==
  <<[id |-> 1, domain |-> "Web", level |-> Beginner,
     languageOrTech |-> <<"J","S">>, topics |-> topicsOf(1, 2)]>>

SampleProgress ==
  [activeDomains |-> {"Web"},
   preferences |-> [present |-> TRUE,
                    configs |-> [d \in Domains |->
                       IF d = "Web"
                       THEN [present |-> TRUE, level |-> Beginner,
                             language |-> <<"J","S">>, libraries |-> <<>>]
                       ELSE NoConfig]],
   completedTopicIds |-> <<11>>]

\* ---------------------------------------------------------------- state
VARIABLES
  chatInput,            \* useState('')            : the draft
  chatHistory,          \* useState([])            : sequence of [role, text]
  isSending,            \* useState(false)
  view,                 \* the values of chatInput and isSending of the
                        \* last render, which the handlers close over
  chatRequests,         \* generateContent calls in flight: [id, contents]
  issued,               \* number of chat requests attempted so far
  chatEvent,            \* what the last chat step did: [op, accepted, outcome]
  motivation,           \* useState("Loading your daily focus...")
  isMotivationLoading,  \* useState(false)
  effectPending,        \* the mount effect has not run yet
  fetches,              \* fetchMotivation calls suspended at an await
  started,              \* number of fetchMotivation invocations so far
  sessions,             \* sessions[sid] = the fetch whose createSession returned sid
  queries,              \* queryOnDemand calls made: [fetch, sid]
  settled,              \* fetches in the order they settled: [fetch, at, outcome]
  progress,             \* the progress prop: [activeDomains, preferences, completedTopicIds]
  CURRICULUM,           \* the imported catalogue: sequence of tracks
  rendered,             \* the component body has computed the values below
  activeTracks,         \* useMemo result
  globalCompletionRate, \* the Mastery percentage
  trackRates            \* trackRates[i] = trackRate of activeTracks[i]

chatVars == <<chatInput, chatHistory, isSending, view, chatRequests, issued, chatEvent>>
motivationVars == <<motivation, isMotivationLoading, effectPending, fetches,
                    started, sessions, queries, settled>>
progressVars == <<progress, CURRICULUM, rendered, activeTracks,
                  globalCompletionRate, trackRates>>
vars == <<chatInput, chatHistory, isSending, view, chatRequests, issued, chatEvent,
          motivation, isMotivationLoading, effectPending, fetches,
          started, sessions, queries, settled,
          progress, CURRICULUM, rendered, activeTracks,
          globalCompletionRate, trackRates>>

\* the component is mounted with the props and the catalogue it is given
InitWith(progresses, catalogues) ==
  /\ progress \in progresses
  /\ CURRICULUM \in catalogues
  /\ rendered = FALSE
  /\ activeTracks = <<>>
  /\ globalCompletionRate = 0
  /\ trackRates = <<>>
  /\ chatInput = <<>>
  /\ chatHistory = <<>>
  /\ isSending = FALSE
  /\ view = [chatInput |-> <<>>, isSending |-> FALSE]
  /\ chatRequests = {}
  /\ issued = 0
  /\ chatEvent = [op |-> "mount", accepted |-> FALSE, outcome |-> NoOutcome]
  /\ motivation = InitialMotivation
  /\ isMotivationLoading = FALSE
  /\ effectPending = TRUE
  /\ fetches = {}
  /\ started = 0
  /\ sessions = <<>>
  /\ queries = <<>>
  /\ settled = <<>>

Init == InitWith({SampleProgress}, {SampleCatalogue})

\* ---------------------------------------------------------------- chat
\* The component re-renders with the committed state: the handlers of the
\* next event close over the new chatInput and isSending.
Render == view' = [chatInput |-> chatInput', isSending |-> isSending']

userMessages == {i \in 1..Len(chatHistory) : chatHistory[i].role = "user"}

\* the guard testing the raw draft instead of the trimmed one
sendRejectedNoTrim(input, sending) == falsy(input) \/ sending

\* the guard without the isSending test
sendRejectedNoFlag(input, sending) == falsy(trim(input))

\* if (!chatInput.trim() || isSending) return;
sendRejected(input, sending) == falsy(trim(input)) \/ sending

\* the message appended with its text trimmed
appendMessageTrimmed(prev, role, text) == Append(prev, [role |-> role, text |-> trim(text)])

\* the history replaced by the new message: setChatHistory([msg])
appendMessageReplace(prev, role, text) == <<[role |-> role, text |-> text]>>

\* the new message put in front of the previous ones
appendMessagePrepend(prev, role, text) == <<[role |-> role, text |-> text]>> \o prev

\* setChatHistory(prev => [...prev, { role, text }])
appendMessage(prev, role, text) == Append(prev, [role |-> role, text |-> text])

\* outcomes of the generateContent call
ChatOutcomes ==
  {[kind |-> "text", text |-> t] : t \in ReplyTexts}
    \cup {[kind |-> "undefined", text |-> <<>>], [kind |-> "throw", text |-> <<>>]}

\* the two fixed literals exchanged
botTextSwapped(o) ==
  IF o.kind = "throw" THEN ApologyText
  ELSE IF o.kind = "undefined" \/ falsy(o.text) THEN ConnectionErrorText
  ELSE o.text

\* response.text || "I'm sorry ..." ; the catch block's literal on a throw
botText(o) ==
  IF o.kind = "throw" THEN ConnectionErrorText
  ELSE IF o.kind = "undefined" \/ falsy(o.text) THEN ApologyText
  ELSE o.text

\* the finally block left out: isSending is never reset
sendingAfterSettleNever(o) == TRUE

\* setIsSending(false) at the end of the try block instead of in finally
sendingAfterSettleTryOnly(o) == o.kind = "throw"

\* finally { setIsSending(false) }
sendingAfterSettle(o) == FALSE

\* onChange={(e) => setChatInput(e.target.value)}
onChange(v) ==
  /\ Cardinality(userMessages) < MaxSends
  /\ chatInput' = v
  /\ chatEvent' = [op |-> "onChange", accepted |-> FALSE, outcome |-> NoOutcome]
  /\ UNCHANGED <<chatHistory, isSending, chatRequests, issued>>
  /\ Render
  /\ UNCHANGED motivationVars
  /\ UNCHANGED progressVars

\* handleSendMessage, the guard fails: return
handleSendMessageRejected ==
  /\ sendRejected(view.chatInput, view.isSending)
  /\ chatEvent' = [op |-> "handleSendMessage", accepted |-> FALSE, outcome |-> NoOutcome]
  /\ UNCHANGED <<chatInput, chatHistory, isSending, chatRequests, issued>>
  /\ Render
  /\ UNCHANGED motivationVars
  /\ UNCHANGED progressVars

\* handleSendMessage, accepted, up to the await of generateContent
handleSendMessageAwait ==
  /\ ~sendRejected(view.chatInput, view.isSending)
  /\ LET userText == view.chatInput IN
       /\ chatHistory' = appendMessage(chatHistory, "user", userText)
       /\ chatRequests' = chatRequests \cup {[id |-> issued + 1, contents |-> userText]}
  /\ chatInput' = <<>>
  /\ isSending' = TRUE
  /\ issued' = issued + 1
  /\ chatEvent' = [op |-> "handleSendMessage", accepted |-> TRUE, outcome |-> NoOutcome]
  /\ Render
  /\ UNCHANGED motivationVars
  /\ UNCHANGED progressVars

\* handleSendMessage, accepted, and the request fails before the await
\* (process.env.API_KEY or new GoogleGenAI throws inside the try block): the
\* catch and the finally blocks run in the same call
handleSendMessageThrows ==
  /\ ~sendRejected(view.chatInput, view.isSending)
  /\ LET userText == view.chatInput
         o == [kind |-> "throw", text |-> <<>>] IN
       /\ chatHistory' = appendMessage(appendMessage(chatHistory, "user", userText),
                                       "bot", botText(o))
       /\ isSending' = sendingAfterSettle(o)
       /\ chatEvent' = [op |-> "handleSendMessageThrows", accepted |-> TRUE, outcome |-> o]
  /\ chatInput' = <<>>
  /\ issued' = issued + 1
  /\ UNCHANGED chatRequests
  /\ Render
  /\ UNCHANGED motivationVars
  /\ UNCHANGED progressVars

\* the finally block calling the setter of the other flag as well
generateContentSettlesClearsLoading(r, o) ==
  /\ r \in chatRequests
  /\ chatRequests' = chatRequests \ {r}
  /\ chatHistory' = appendMessage(chatHistory, "bot", botText(o))
  /\ isSending' = sendingAfterSettle(o)
  /\ chatEvent' = [op |-> "settle", accepted |-> FALSE, outcome |-> o]
  /\ UNCHANGED <<chatInput, issued>>
  /\ Render
  /\ isMotivationLoading' = FALSE
  /\ UNCHANGED <<motivation, effectPending, fetches, started, sessions, queries, settled>>
  /\ UNCHANGED progressVars

\* the awaited generateContent call settles: the rest of handleSendMessage
generateContentSettles(r, o) ==
  /\ r \in chatRequests
  /\ chatRequests' = chatRequests \ {r}
  /\ chatHistory' = appendMessage(chatHistory, "bot", botText(o))
  /\ isSending' = sendingAfterSettle(o)
  /\ chatEvent' = [op |-> "settle", accepted |-> FALSE, outcome |-> o]
  /\ UNCHANGED <<chatInput, issued>>
  /\ Render
  /\ UNCHANGED motivationVars
  /\ UNCHANGED progressVars

ChatNext ==
  \/ \E v \in Texts : onChange(v)
  \/ handleSendMessageRejected
  \/ handleSendMessageAwait
  \/ handleSendMessageThrows
  \/ \E r \in chatRequests : \E o \in ChatOutcomes : generateContentSettles(r, o)

\* The setters only queue their updates: chatInput and isSending of the
\* closure keep the values of the render the handler was created in. The
\* next three actions are handleSendMessage invoked again on the handlers of
\* the same render, before the queued updates are committed.
handleSendMessageRejectedNoRender ==
  /\ sendRejected(view.chatInput, view.isSending)
  /\ chatEvent' = [op |-> "handleSendMessage", accepted |-> FALSE, outcome |-> NoOutcome]
  /\ UNCHANGED <<chatInput, chatHistory, isSending, chatRequests, issued, view>>
  /\ UNCHANGED motivationVars
  /\ UNCHANGED progressVars

handleSendMessageAwaitNoRender ==
  /\ issued < MaxSends
  /\ ~sendRejected(view.chatInput, view.isSending)
  /\ LET userText == view.chatInput IN
       /\ chatHistory' = appendMessage(chatHistory, "user", userText)
       /\ chatRequests' = chatRequests \cup {[id |-> issued + 1, contents |-> userText]}
  /\ chatInput' = <<>>
  /\ isSending' = TRUE
  /\ issued' = issued + 1
  /\ chatEvent' = [op |-> "handleSendMessage", accepted |-> TRUE, outcome |-> NoOutcome]
  /\ UNCHANGED view
  /\ UNCHANGED motivationVars
  /\ UNCHANGED progressVars

handleSendMessageThrowsNoRender ==
  /\ issued < MaxSends
  /\ ~sendRejected(view.chatInput, view.isSending)
  /\ LET userText == view.chatInput
         o == [kind |-> "throw", text |-> <<>>] IN
       /\ chatHistory' = appendMessage(appendMessage(chatHistory, "user", userText),
                                       "bot", botText(o))
       /\ isSending' = sendingAfterSettle(o)
       /\ chatEvent' = [op |-> "handleSendMessageThrows", accepted |-> TRUE, outcome |-> o]
  /\ chatInput' = <<>>
  /\ issued' = issued + 1
  /\ UNCHANGED <<chatRequests, view>>
  /\ UNCHANGED motivationVars
  /\ UNCHANGED progressVars

\* React commits the queued updates: a new render, new handler closures
commitRender ==
  /\ view # [chatInput |-> chatInput, isSending |-> isSending]
  /\ view' = [chatInput |-> chatInput, isSending |-> isSending]
  /\ chatEvent' = [op |-> "render", accepted |-> FALSE, outcome |-> NoOutcome]
  /\ UNCHANGED <<chatInput, chatHistory, isSending, chatRequests, issued>>
  /\ UNCHANGED motivationVars
  /\ UNCHANGED progressVars

SnapshotNext ==
  \/ \E v \in Texts : issued < MaxSends /\ onChange(v)
  \/ handleSendMessageRejectedNoRender
  \/ handleSendMessageAwaitNoRender
  \/ handleSendMessageThrowsNoRender
  \/ commitRender
  \/ \E r \in chatRequests : \E o \in ChatOutcomes : generateContentSettles(r, o)

\* ---------------------------------------------------------------- motivation
\* outcomes of an awaited service call
QueryOutcomes ==
  {[kind |-> "text", text |-> t] : t \in ReplyTexts} \cup {[kind |-> "throw", text |-> <<>>]}

\* the catch block writing the other literal
motivationTextSwapped(o) ==
  IF o.kind = "throw" THEN EmptyQuoteFallback
  ELSE IF falsy(o.text) THEN MotivationErrorFallback
  ELSE o.text

\* setMotivation(quote || "Consistency ...") ; the catch block's literal on a throw
motivationText(o) ==
  IF o.kind = "throw" THEN MotivationErrorFallback
  ELSE IF falsy(o.text) THEN EmptyQuoteFallback
  ELSE o.text

\* a response is dropped unless it belongs to the fetch started last
motivationAfterSettleLatestOnly(f, o, current) ==
  IF f.id = started THEN motivationText(o) ELSE current

\* the value setMotivation leaves when fetch f settles with outcome o
motivationAfterSettle(f, o, current) == motivationText(o)

\* setIsMotivationLoading(false) at the end of the try block instead of in finally
loadingAfterSettleTryOnly(o) == o.kind = "throw"

\* finally { setIsMotivationLoading(false) }
loadingAfterSettle(o) == FALSE

\* one session kept for all the fetches: the first one created
querySessionCached(f, sess) == 1

\* the sid that fetch f passes to queryOnDemand: the const bound in its own call
querySession(f, sess) == CHOOSE i \in 1..Len(sess) : sess[i] = f

\* fetchMotivation up to the await of createOnDemandSession
fetchMotivation ==
  /\ started < MaxFetches
  /\ isMotivationLoading' = TRUE
  /\ started' = started + 1
  /\ fetches' = fetches \cup {[id |-> started + 1, pc |-> "createSession"]}
  /\ UNCHANGED <<motivation, sessions, queries, settled>>

\* useEffect(() => { fetchMotivation(); }, [user.name]) after the first render
useEffectFetchMotivation ==
  /\ effectPending
  /\ effectPending' = FALSE
  /\ fetchMotivation
  /\ UNCHANGED chatVars
  /\ UNCHANGED progressVars

\* the Refresh Motivation button: onClick={fetchMotivation}
onClickRefresh ==
  /\ ~effectPending
  /\ UNCHANGED effectPending
  /\ fetchMotivation
  /\ UNCHANGED chatVars
  /\ UNCHANGED progressVars

\* createOnDemandSession resolves with a new session (a session id stands for
\* the call that returned it): fetchMotivation goes on to call queryOnDemand
createSessionResolves(f) ==
  /\ f \in fetches /\ f.pc = "createSession"
  /\ sessions' = Append(sessions, f.id)
  /\ queries' = Append(queries, [fetch |-> f.id, sid |-> querySession(f.id, sessions')])
  /\ fetches' = (fetches \ {f}) \cup {[f EXCEPT !.pc = "query"]}
  /\ UNCHANGED <<motivation, isMotivationLoading, effectPending, started, settled>>
  /\ UNCHANGED chatVars
  /\ UNCHANGED progressVars

\* createOnDemandSession rejects: catch, then finally
createSessionRejects(f) ==
  /\ f \in fetches /\ f.pc = "createSession"
  /\ LET o == [kind |-> "throw", text |-> <<>>] IN
       /\ motivation' = motivationAfterSettle(f, o, motivation)
       /\ isMotivationLoading' = loadingAfterSettle(o)
       /\ settled' = Append(settled, [fetch |-> f.id, at |-> "createSession", outcome |-> o])
  /\ fetches' = fetches \ {f}
  /\ UNCHANGED <<effectPending, started, sessions, queries>>
  /\ UNCHANGED chatVars
  /\ UNCHANGED progressVars

\* queryOnDemand settles: setMotivation or catch, then finally
querySettles(f, o) ==
  /\ f \in fetches /\ f.pc = "query"
  /\ motivation' = motivationAfterSettle(f, o, motivation)
  /\ isMotivationLoading' = loadingAfterSettle(o)
  /\ settled' = Append(settled, [fetch |-> f.id, at |-> "query", outcome |-> o])
  /\ fetches' = fetches \ {f}
  /\ UNCHANGED <<effectPending, started, sessions, queries>>
  /\ UNCHANGED chatVars
  /\ UNCHANGED progressVars

MotivationNext ==
  \/ useEffectFetchMotivation
  \/ onClickRefresh
  \/ \E f \in fetches : createSessionResolves(f)
  \/ \E f \in fetches : createSessionRejects(f)
  \/ \E f \in fetches : \E o \in QueryOutcomes : querySettles(f, o)

\* ---------------------------------------------------------------- progress
\* x || d on strings
orDefault(x, d) == IF falsy(x) THEN d ELSE x

\* Array.prototype.includes
includes(list, x) == \E i \in 1..Len(list) : list[i] = x

\* the levels compared as they are written
levelMatchesCaseSensitive(path, config) == path.level = orDefault(config.level, Beginner)

\* const userLevel = config.level || 'Beginner';
\* path.level.toLowerCase() === userLevel.toLowerCase()
levelMatches(path, config) ==
  toLowerCase(path.level) = toLowerCase(orDefault(config.level, Beginner))

\* the ML branch comparing the way the other domains do
techMatchesIgnoreCase(path, config) ==
  IF path.domain = ML
  THEN \E i \in 1..Len(config.libraries) :
         toLowerCase(config.libraries[i]) = toLowerCase(path.languageOrTech)
  ELSE toLowerCase(path.languageOrTech) = toLowerCase(orDefault(config.language, <<>>))

\* if (path.domain === 'ML') return (config.libraries || []).includes(path.languageOrTech);
\* return path.languageOrTech.toLowerCase() === (config.language || '').toLowerCase();
techMatches(path, config) ==
  IF path.domain = ML
  THEN includes(config.libraries, path.languageOrTech)
  ELSE toLowerCase(path.languageOrTech) = toLowerCase(orDefault(config.language, <<>>))

\* the callback of CURRICULUM.filter
trackMatches(prog, path) ==
  LET config == prog.preferences.configs[path.domain] IN
    /\ path.domain \in prog.activeDomains
    /\ config.present
    /\ levelMatches(path, config)
    /\ techMatches(path, config)

\* without preferences every track of an active domain is kept
activeTracksOfNoPreferencesAll(prog, catalogue) ==
  IF ~prog.preferences.present
  THEN SelectSeq(catalogue, LAMBDA path : path.domain \in prog.activeDomains)
  ELSE SelectSeq(catalogue, LAMBDA path : trackMatches(prog, path))

\* the matched tracks collected domain by domain
activeTracksOfByDomain(prog, catalogue) ==
  IF ~prog.preferences.present THEN <<>>
  ELSE SelectSeq(catalogue, LAMBDA path : path.domain = ML /\ trackMatches(prog, path))
         \o SelectSeq(catalogue, LAMBDA path : path.domain # ML /\ trackMatches(prog, path))

\* the useMemo body: if (!prefs) return []; return CURRICULUM.filter(...)
activeTracksOf(prog, catalogue) ==
  IF ~prog.preferences.present THEN <<>>
  ELSE SelectSeq(catalogue, LAMBDA path : trackMatches(prog, path))

\* Math.floor in the place of Math.round
mathRoundDown(num, den) == (100 * num) \div den

\* Math.round((num / den) * 100) for den > 0, on the exact quotient, halves
\* rounded up.  The double-precision quotient of the source differs from the
\* exact one only when 100 * num / den lies exactly half-way between two
\* integers, which needs den to be a multiple of 8; the first case where the
\* source then rounds down is num = 23, den = 40.
mathRound(num, den) == (200 * num + den) \div (2 * den)

RECURSIVE totalPossibleTopicsOf(_)
\* activeTracks.reduce((acc, curr) => acc + curr.topics.length, 0)
totalPossibleTopicsOf(tracks) ==
  IF tracks = <<>> THEN 0
  ELSE Len(Head(tracks).topics) + totalPossibleTopicsOf(Tail(tracks))

\* totalPossibleTopics > 0 ? Math.round((totalCompletedTopics / totalPossibleTopics) * 100) : 0
\* with totalCompletedTopics = progress.completedTopicIds.length
globalCompletionRateOf(prog, tracks) ==
  LET totalPossibleTopics == totalPossibleTopicsOf(tracks)
      totalCompletedTopics == Len(prog.completedTopicIds)
  IN IF totalPossibleTopics > 0 THEN mathRound(totalCompletedTopics, totalPossibleTopics) ELSE 0

\* completedInTrack and trackRate of one card
trackRateOf(prog, path) ==
  LET completedInTrack ==
        Len(SelectSeq(path.topics, LAMBDA t : includes(prog.completedTopicIds, t.id)))
  IN IF Len(path.topics) > 0 THEN mathRound(completedInTrack, Len(path.topics)) ELSE 0

\* the component body: the memo, the totals and the rate of each card
renderDashboard ==
  /\ ~rendered
  /\ rendered' = TRUE
  /\ activeTracks' = activeTracksOf(progress, CURRICULUM)
  /\ globalCompletionRate' = globalCompletionRateOf(progress, activeTracks')
  /\ trackRates' = [i \in 1..Len(activeTracks') |-> trackRateOf(progress, activeTracks'[i])]
  /\ UNCHANGED <<progress, CURRICULUM>>
  /\ UNCHANGED chatVars
  /\ UNCHANGED motivationVars

ProgressNext == renderDashboard

Next == ChatNext \/ MotivationNext \/ ProgressNext

Spec == Init /\ [][Next]_vars

\* the two controllers on their own
ChatSpec == Init /\ [][ChatNext]_vars
MotivationSpec == Init /\ [][MotivationNext]_vars

\* the three parts together, each input drawn from one or two values: the
\* draft a, an absent reply or a throw, a returned quote or a throw
FrameNext ==
  \/ \E v \in {<<"a">>} : onChange(v)
  \/ handleSendMessageRejected
  \/ handleSendMessageAwait
  \/ handleSendMessageThrows
  \/ \E r \in chatRequests :
       \E o \in {c \in ChatOutcomes : c.kind # "text"} : generateContentSettles(r, o)
  \/ useEffectFetchMotivation
  \/ onClickRefresh
  \/ \E f \in fetches : createSessionResolves(f)
  \/ \E f \in fetches : createSessionRejects(f)
  \/ \E f \in fetches :
       \E o \in {q \in QueryOutcomes : q.text = <<>>} : querySettles(f, o)
  \/ renderDashboard
FrameSpec == Init /\ [][FrameNext]_vars

\* the chat with the render as a step of its own
SnapshotSpec == Init /\ [][SnapshotNext]_vars

\* the matcher and the rates on their own, over the catalogues and the
\* preferences that exercise the matcher, and over the topic lists and the
\* completed ids that exercise the rates
MatchInit == InitWith(MatchProgresses, MatchCatalogues)
MatchSpec == MatchInit /\ [][ProgressNext]_vars
AggregateInit == InitWith(AggregateProgresses, AggregateCatalogues)
AggregateSpec == AggregateInit /\ [][ProgressNext]_vars

\* ================================================================ claims
IsPrefix(p, q) == Len(p) <= Len(q) /\ SubSeq(q, 1, Len(p)) = p
Last(q) == q[Len(q)]
SendOps == {"handleSendMessage", "handleSendMessageThrows"}
SettleOps == {"settle", "handleSendMessageThrows"}
numRole(h, role) == Cardinality({i \in 1..Len(h) : h[i].role = role})

C3_SettleResetsSending ==
  [][/\ (chatEvent'.op \in SettleOps /\ chatHistory' # chatHistory) => ~isSending'
     /\ (chatEvent'.op \in SendOps /\ ~isSending /\ ~falsy(trim(chatInput)))
          => /\ chatEvent'.accepted
             /\ Len(chatHistory') > Len(chatHistory)
             /\ chatHistory'[Len(chatHistory) + 1] = [role |-> "user", text |-> chatInput]
             /\ issued' = issued + 1]_vars

\* a send was accepted after a turn that ended with one of the two fallbacks
C3_Witness ==
  /\ Len(chatHistory) = 3
  /\ chatHistory[2].text \in {ConnectionErrorText, ApologyText}
  /\ chatEvent.op = "handleSendMessage" /\ chatEvent.accepted
  /\ isSending

\* C4: the settlement of a chat request appends exactly one bot message: the
\* reply text when it is non-empty, the apology literal when the reply is
\* empty or absent, the connectivity-error literal when the request throws;
\* the handler completes (isSending is false afterwards).
C4_BotTextByOutcome ==
  [][chatEvent'.op \in SettleOps /\ chatHistory' # chatHistory
       => LET o == chatEvent'.outcome
              expected == IF o.kind = "throw" THEN ConnectionErrorText
                          ELSE IF o.kind = "text" /\ o.text # <<>> THEN o.text
                          ELSE ApologyText
          IN /\ Last(chatHistory') = [role |-> "bot", text |-> expected]
             /\ numRole(chatHistory', "bot") = numRole(chatHistory, "bot") + 1
             /\ ~isSending']_vars

\* one turn ended with the apology and one with the connectivity error
C4_Witness ==
  /\ Len(chatHistory) = 4
  /\ {chatHistory[2].text, chatHistory[4].text} = {ApologyText, ConnectionErrorText}
  /\ chatEvent.op = "settle"

\* C5: handleSendMessage invoked with an empty or whitespace-only draft
\* changes neither the history, nor isSending, nor the draft, and makes no
\* request.
C5_BlankDraftNoOp ==
  [][(chatEvent'.op \in SendOps /\ falsy(trim(chatInput)))
       => /\ ~chatEvent'.accepted
          /\ UNCHANGED <<chatHistory, isSending, chatInput, chatRequests, issued>>]_vars

\* a whitespace-only draft was rejected while nothing was being sent
C5_Witness ==
  /\ chatEvent.op = "handleSendMessage" /\ ~chatEvent.accepted
  /\ chatInput # <<>> /\ falsy(trim(chatInput))
  /\ ~isSending

\* C6 (as stated): every step leaves the previous history a prefix of the new
\* one and appends at most one message.
C6_AppendAtMostOne ==
  [][/\ IsPrefix(chatHistory, chatHistory')
     /\ Len(chatHistory') <= Len(chatHistory) + 1]_vars

\* C6 (amended): every step leaves the previous history a prefix of the new
\* one; a step appends at most one message, except an accepted send whose
\* request fails before it is awaited, which appends the user message and the
\* connectivity-error message together.
C6_AppendOnly ==
  [][/\ IsPrefix(chatHistory, chatHistory')
     /\ Len(chatHistory') <= Len(chatHistory) + 2
     /\ Len(chatHistory') = Len(chatHistory) + 2
          => /\ chatRequests' = chatRequests
             /\ chatHistory'[Len(chatHistory) + 1].role = "user"
             /\ chatHistory'[Len(chatHistory) + 2] =
                  [role |-> "bot", text |-> ConnectionErrorText]]_vars

\* a send failed before its await after an earlier complete turn
C6_Witness ==
  /\ chatEvent.op = "handleSendMessageThrows"
  /\ Len(chatHistory) = 4

\* the text the motivation feed shows for an outcome
expectedMotivation(o) ==
  IF o.kind = "throw" THEN MotivationErrorFallback
  ELSE IF o.text = <<>> THEN EmptyQuoteFallback
  ELSE o.text

\* C7: when a fetch settles, motivation is the returned quote if it is
\* non-empty, the empty-quote fallback if it is empty, and the same error
\* fallback whether createSession or query threw; after a throw
\* isMotivationLoading is false.
C7_MotivationByOutcome ==
  [][Len(settled') = Len(settled) + 1
       => LET e == Last(settled') IN
            /\ e.outcome.kind = "text" /\ e.outcome.text # <<>> => motivation' = e.outcome.text
            /\ e.outcome.kind = "text" /\ e.outcome.text = <<>> => motivation' = EmptyQuoteFallback
            /\ e.outcome.kind = "throw"
                 => motivation' = MotivationErrorFallback /\ ~isMotivationLoading']_vars

\* a createSession failure and a query failure have both been seen, and the
\* last fetch to settle threw
C7_Witness ==
  /\ \E i, j \in 1..Len(settled) :
       /\ settled[i].at = "createSession"
       /\ settled[j].at = "query" /\ settled[j].outcome.kind = "throw"
  /\ Last(settled).outcome.kind = "throw"
  /\ motivation = MotivationErrorFallback

\* C8: a fetchMotivation invocation sets isMotivationLoading when it starts,
\* every settlement clears it, and when no fetch is outstanding it is false.
C8_LoadingFlag ==
  /\ [](fetches = {} => ~isMotivationLoading)
  /\ [][/\ started' = started + 1 => isMotivationLoading'
        /\ Len(settled') = Len(settled) + 1 => ~isMotivationLoading']_vars

\* three fetches have settled, by a createSession failure, a query failure and
\* a returned quote, and none is outstanding
C8_Witness ==
  /\ fetches = {}
  /\ Len(settled) >= 3
  /\ \E i, j, k \in 1..Len(settled) :
       /\ settled[i].at = "createSession"
       /\ settled[j].at = "query" /\ settled[j].outcome.kind = "throw"
       /\ settled[k].outcome.kind = "text"

\* C9: motivation always holds what the fetch that settled last wrote,
\* whatever the order in which the fetches were started.
C9_LastSettledWins ==
  settled # <<>> => motivation = expectedMotivation(Last(settled).outcome)

\* two fetches overlapped and the one started first settled last, with a
\* different text
C9_Witness ==
  /\ fetches = {}
  /\ Len(settled) = 2
  /\ Len(queries) = 2
  /\ settled[1].fetch = 2 /\ settled[2].fetch = 1
  /\ expectedMotivation(settled[1].outcome) # expectedMotivation(settled[2].outcome)

\* C10: every query uses the session that the createSession call of its own
\* fetch returned, no session is used by two queries, and a fetch whose
\* createSession failed makes no query.
C10_OwnSession ==
  /\ \A i \in 1..Len(queries) :
       /\ queries[i].sid \in 1..Len(sessions)
       /\ sessions[queries[i].sid] = queries[i].fetch
  /\ \A i, j \in 1..Len(queries) : queries[i].sid = queries[j].sid => i = j
  /\ \A i \in 1..Len(settled) :
       settled[i].at = "createSession"
         => \A j \in 1..Len(queries) : queries[j].fetch # settled[i].fetch

\* two fetches have queried and a third failed to create its session
C10_Witness ==
  /\ Len(queries) = 2
  /\ \E i \in 1..Len(settled) : settled[i].at = "createSession"

\* ---------------------------------------------------------------- matcher and rates
\* catalogue track i is among the matched tracks
isMatched(i) == \E j \in 1..Len(activeTracks) : activeTracks[j].id = CURRICULUM[i].id

\* the config of the domain of catalogue track i
configOf(i) == progress.preferences.configs[CURRICULUM[i].domain]

\* r is an integer nearest to 100 * num / den
isRounded(r, num, den) ==
  /\ 2 * (100 * num - r * den) <= den
  /\ 2 * (r * den - 100 * num) <= den

\* the topics of the matched tracks: <<j, k>> is topic k of matched track j
matchedTopics ==
  UNION {{<<j, k>> : k \in 1..Len(activeTracks[j].topics)} : j \in 1..Len(activeTracks)}

\* the completed ids, as a set
completedIds == {progress.completedTopicIds[i] : i \in 1..Len(progress.completedTopicIds)}

\* the topics of the matched tracks whose id is completed
completedMatchedTopics ==
  {t \in matchedTopics : activeTracks[t[1]].topics[t[2]].id \in completedIds}

\* C11: globalCompletionRate is round(100 * K / T), T the number of topics of
\* the matched tracks and K the number of them whose id is in
\* completedTopicIds; it is 0 when T is 0.
C11_GlobalOverMatchedTopics ==
  rendered =>
    LET T == Cardinality(matchedTopics)
        K == Cardinality(completedMatchedTopics)
    IN IF T = 0 THEN globalCompletionRate = 0
       ELSE isRounded(globalCompletionRate, K, T)

\* C12: a track of a domain other than ML, whose domain is active and has a
\* config, is matched exactly when its level equals the config's level
\* (Beginner when empty) and its languageOrTech equals the config's language,
\* both without regard to case; a track whose domain is not active or has no
\* config is not matched.
C12_NonMLMatch ==
  rendered /\ progress.preferences.present =>
    \A i \in 1..Len(CURRICULUM) :
      LET path == CURRICULUM[i]
          config == configOf(i)
      IN IF path.domain \notin progress.activeDomains \/ ~config.present
         THEN ~isMatched(i)
         ELSE path.domain # ML =>
                (isMatched(i) <=>
                   /\ toLowerCase(path.level) =
                        toLowerCase(IF config.level = <<>> THEN Beginner ELSE config.level)
                   /\ toLowerCase(path.languageOrTech) = toLowerCase(config.language))

\* a Web track is matched although its level and its languageOrTech are
\* written in another case than the config's, and another Web track is not
C12_Witness ==
  /\ rendered
  /\ \E i, k \in 1..Len(CURRICULUM) :
       /\ CURRICULUM[i].domain # ML /\ isMatched(i)
       /\ CURRICULUM[i].level # configOf(i).level /\ configOf(i).level # <<>>
       /\ CURRICULUM[i].languageOrTech # configOf(i).language
       /\ CURRICULUM[k].domain # ML /\ ~isMatched(k)

\* C13: an ML track whose domain is active, has a config and whose level
\* matches is matched exactly when its languageOrTech is, as written, one of
\* the config's libraries; the config's language plays no part.
C13_MLMatch ==
  rendered /\ progress.preferences.present =>
    \A i \in 1..Len(CURRICULUM) :
      LET path == CURRICULUM[i]
          config == configOf(i)
      IN (/\ path.domain = ML
          /\ path.domain \in progress.activeDomains
          /\ config.present
          /\ toLowerCase(path.level) =
               toLowerCase(IF config.level = <<>> THEN Beginner ELSE config.level))
         => (isMatched(i) <=>
               \E k \in 1..Len(config.libraries) : config.libraries[k] = path.languageOrTech)

\* an ML track is matched through the second library, and another ML track
\* of the same level is not matched
C13_Witness ==
  /\ rendered
  /\ progress.preferences.configs[ML].libraries = <<<<"T","F">>, <<"t","f">>>>
  /\ \E i, k \in 1..Len(CURRICULUM) :
       /\ CURRICULUM[i].domain = ML /\ isMatched(i)
       /\ CURRICULUM[k].domain = ML /\ ~isMatched(k)
       /\ CURRICULUM[k].level = CURRICULUM[i].level

\* C14: when the config of a domain has an empty language and no libraries,
\* no track of that domain is matched.
C14_EmptyConfigMatchesNothing ==
  rendered =>
    \A i \in 1..Len(CURRICULUM) :
      (configOf(i).language = <<>> /\ configOf(i).libraries = <<>>) => ~isMatched(i)

\* C15: without preferences no track is matched and globalCompletionRate is 0.
C15_NoPreferences ==
  (rendered /\ ~progress.preferences.present) =>
    (activeTracks = <<>> /\ globalCompletionRate = 0)

\* rendered without preferences, with a track of an active domain in the
\* catalogue and a completed topic
C15_Witness ==
  /\ rendered /\ ~progress.preferences.present
  /\ \E i \in 1..Len(CURRICULUM) : CURRICULUM[i].domain \in progress.activeDomains
  /\ progress.completedTopicIds # <<>>

\* C16: the rate of a track is an integer of 0..100 nearest to
\* 100 * (completed topics of the track) / (topics of the track); it is 0 for
\* a track without topics and 100 when every topic is completed.
C16_TrackRate ==
  rendered =>
    /\ Len(trackRates) = Len(activeTracks)
    /\ \A j \in 1..Len(activeTracks) :
         LET n == Len(activeTracks[j].topics)
             c == Cardinality({k \in 1..n : activeTracks[j].topics[k].id \in completedIds})
         IN /\ trackRates[j] \in 0..100
            /\ n = 0 => trackRates[j] = 0
            /\ n > 0 => isRounded(trackRates[j], c, n)
            /\ (n > 0 /\ c = n) => trackRates[j] = 100

\* a track with two of three topics completed shows 67, beside a track
\* without topics
C16_Witness ==
  /\ rendered
  /\ \E j, k \in 1..Len(activeTracks) :
       /\ Len(activeTracks[j].topics) = 3 /\ trackRates[j] = 67
       /\ activeTracks[k].topics = <<>>

\* C17: the matched tracks are catalogue tracks, in the order of the
\* catalogue, none twice (track i of the catalogue has the id i).
C17_Subsequence ==
  /\ \A i \in 1..Len(CURRICULUM) : CURRICULUM[i].id = i
  /\ \A j \in 1..Len(activeTracks) :
       /\ activeTracks[j].id \in 1..Len(CURRICULUM)
       /\ activeTracks[j] = CURRICULUM[activeTracks[j].id]
  /\ \A j, k \in 1..Len(activeTracks) : j < k => activeTracks[j].id < activeTracks[k].id

\* a Web track followed by an ML track, both matched
C17_Witness ==
  /\ rendered
  /\ Len(activeTracks) = 2
  /\ activeTracks[1].domain # ML /\ activeTracks[2].domain = ML

\* C18 (as stated): an accepted handleSendMessage appends the user message
\* with the raw draft, clears the draft, sets isSending and issues exactly one
\* request, whose contents are that text alone.
C18_AcceptedSend ==
  [][(chatEvent'.op \in SendOps /\ chatEvent'.accepted)
       => /\ chatHistory' = Append(chatHistory, [role |-> "user", text |-> chatInput])
          /\ chatInput' = <<>>
          /\ isSending'
          /\ issued' = issued + 1
          /\ \E r \in chatRequests' :
               /\ r \notin chatRequests
               /\ chatRequests' = chatRequests \cup {r}
               /\ r.contents = chatInput]_vars

\* C18 (amended): an accepted handleSendMessage appends the user message with
\* the raw draft, clears the draft and makes one request attempt; it then
\* either leaves isSending set with exactly one new request in flight, whose
\* contents are that text alone, or, when the attempt fails before it is
\* awaited, has also appended the connectivity-error message and leaves
\* isSending false with no new request in flight.
C18_AcceptedSendOrThrow ==
  [][(chatEvent'.op \in SendOps /\ chatEvent'.accepted)
       => LET withUser == Append(chatHistory, [role |-> "user", text |-> chatInput]) IN
          /\ chatInput' = <<>>
          /\ issued' = issued + 1
          /\ \/ /\ chatHistory' = withUser
                /\ isSending'
                /\ \E r \in chatRequests' :
                     /\ r \notin chatRequests
                     /\ chatRequests' = chatRequests \cup {r}
                     /\ r.contents = chatInput
             \/ /\ chatHistory' = Append(withUser, [role |-> "bot", text |-> ConnectionErrorText])
                /\ ~isSending'
                /\ chatRequests' = chatRequests]_vars

\* after a complete turn, a draft with a leading blank was accepted as typed
\* and is the contents of the one request in flight
C18_Witness ==
  /\ chatEvent.op = "handleSendMessage" /\ chatEvent.accepted
  /\ Len(chatHistory) = 3
  /\ Last(chatHistory).text # trim(Last(chatHistory).text)
  /\ \E r \in chatRequests : chatRequests = {r} /\ r.contents = Last(chatHistory).text
  /\ isSending /\ chatInput = <<>>

\* C19: no step changes the progress prop; a step of the chat leaves
\* motivation and isMotivationLoading unchanged, and a step of the motivation
\* feed leaves chatHistory, isSending and chatInput unchanged.
C19_Frames ==
  [][/\ progress' = progress
     /\ chatVars' # chatVars => UNCHANGED <<motivation, isMotivationLoading>>
     /\ motivationVars' # motivationVars => UNCHANGED <<chatHistory, isSending, chatInput>>
     /\ <<activeTracks, globalCompletionRate, trackRates>>'
          # <<activeTracks, globalCompletionRate, trackRates>>
          => UNCHANGED <<chatVars, motivationVars>>]_vars

\* the rates are rendered, a chat request is in flight after a complete turn,
\* one fetch has settled and another is outstanding
C19_Witness ==
  /\ rendered
  /\ chatRequests # {} /\ Len(chatHistory) = 3
  /\ settled # <<>> /\ fetches # {}
  /\ isMotivationLoading

\* C20: in every reachable state isMotivationLoading is true exactly when at
\* least one motivation fetch is outstanding.
C20_LoadingIffOutstanding == isMotivationLoading <=> fetches # {}

\* C21: a handleSendMessage invocation that directly follows an accepted one,
\* with no render in between, appends no user message and issues no request.
C21_GuardPerSnapshot ==
  [][(chatEvent.op \in SendOps /\ chatEvent.accepted /\ chatEvent'.op \in SendOps)
       => UNCHANGED <<chatHistory, chatRequests, issued>>]_vars

C23_GlobalRateInRange == rendered => globalCompletionRate \in 0..100
====
